---- MODULE Spec2Model ----
(***************************************************************************)
(* Langchain-Chatchat: the chat endpoint (server/chat/chat.py) and the     *)
(* dialogue page (webui_pages/dialogue/dialogue.py).                       *)
(*                                                                         *)
(* Three state machines share this module:                                 *)
(*   Spec       one chat request: chat_iterator streaming the callback     *)
(*              iterator, and the page's loop rendering the events;        *)
(*   SpecChains create_models_from_config / create_models_chains applied   *)
(*              to the requests of a bounded input set;                    *)
(*   SpecUI     the page's session state under commands, selections and    *)
(*              plain prompts.                                             *)
(* Texts are sequences of one-character strings, so that json.dumps,       *)
(* json.loads, str.lower, substring tests and the command regex are        *)
(* computed, not assumed.                                                  *)
(***************************************************************************)
EXTENDS Integers, Sequences, FiniteSets, TLC

\* ------------------------------------------------------------------ bounds
\* the most callback events one chain run puts on the iterator (before a failure)
MaxEvents == 3
\* the identifiers uuid4 gives in one page session
MaxUuids == 3
\* the prompts one page session sends to the chat endpoint
MaxPrompts == 1

\* ------------------------------------------------------------------ JSON
\* A JSON value: [t |-> "str" | "int" | "null", v |-> its characters].
\* A dict keeps its keys in insertion order: a sequence of [k, val].
Str(s) == [t |-> "str", v |-> s]
Num(s) == [t |-> "int", v |-> s]
None == [t |-> "null", v |-> <<>>]

RECURSIVE DictHas(_, _)
DictHas(d, k) ==
    IF d = <<>> THEN FALSE
    ELSE IF Head(d).k = k THEN TRUE ELSE DictHas(Tail(d), k)

RECURSIVE DictGet(_, _)
\* d[k]; the caller has checked that the key is there
DictGet(d, k) ==
    IF Head(d).k = k THEN Head(d).val ELSE DictGet(Tail(d), k)

RECURSIVE DictSet(_, _, _)
\* d[k] = val: an existing key keeps its place, a new key goes last
DictSet(d, k, val) ==
    IF d = <<>> THEN <<[k |-> k, val |-> val]>>
    ELSE IF Head(d).k = k THEN <<[k |-> k, val |-> val]>> \o Tail(d)
    ELSE <<Head(d)>> \o DictSet(Tail(d), k, val)

\* json.dumps escapes the characters a JSON string cannot hold raw
EscapeChar(c) ==
    IF c = "\n" THEN <<"\\", "n">>
    ELSE IF c = "\"" THEN <<"\\", "\"">>
    ELSE IF c = "\\" THEN <<"\\", "\\">>
    ELSE <<c>>

RECURSIVE Escape(_)
Escape(s) == IF s = <<>> THEN <<>> ELSE EscapeChar(Head(s)) \o Escape(Tail(s))

DumpsValue(val) ==
    IF val.t = "str" THEN <<"\"">> \o Escape(val.v) \o <<"\"">>
    ELSE IF val.t = "null" THEN <<"null">>
    ELSE val.v

RECURSIVE DumpsMembers(_)
DumpsMembers(d) ==
    IF d = <<>> THEN <<>>
    ELSE <<"\"", Head(d).k, "\"", ":">> \o DumpsValue(Head(d).val)
         \o (IF Tail(d) = <<>> THEN <<>> ELSE <<",">> \o DumpsMembers(Tail(d)))

\* json.dumps(data, ensure_ascii=False): one object, no indent, no newline
Dumps(d) == <<"{">> \o DumpsMembers(d) \o <<"}">>

UnescapeChar(c) == IF c = "n" THEN "\n" ELSE c

RECURSIVE ParseString(_, _, _)
\* s[i..] after an opening quote: the string's characters and the place after it
ParseString(s, i, acc) ==
    IF s[i] = "\"" THEN [v |-> acc, next |-> i + 1]
    ELSE IF s[i] = "\\" THEN ParseString(s, i + 2, Append(acc, UnescapeChar(s[i + 1])))
    ELSE ParseString(s, i + 1, Append(acc, s[i]))

RECURSIVE ParseNumber(_, _, _)
ParseNumber(s, i, acc) ==
    IF s[i] \in {",", "}"} THEN [v |-> acc, next |-> i]
    ELSE ParseNumber(s, i + 1, Append(acc, s[i]))

\* (a value used more than once is bound through a one-element set, which
\* evaluates it once)
ParseValue(s, i) ==
    IF s[i] = "\""
    THEN CHOOSE out \in {[val |-> Str(r.v), next |-> r.next] :
                         r \in {ParseString(s, i + 1, <<>>)}} : TRUE
    ELSE IF s[i] = "null" THEN [val |-> None, next |-> i + 1]
    ELSE CHOOSE out \in {[val |-> Num(r.v), next |-> r.next] :
                         r \in {ParseNumber(s, i, <<>>)}} : TRUE

RECURSIVE ParseMembers(_, _, _)
\* s[i] is the quote opening a key, or the closing brace
ParseMembers(s, i, d) ==
    IF s[i] = "}" THEN d
    ELSE CHOOSE out \in UNION {
             {IF s[r.next] = "," THEN ParseMembers(s, r.next + 1, d2) ELSE d2 :
              d2 \in {DictSet(d, s[i + 1], r.val)}} :
             r \in {ParseValue(s, i + 4)}} : TRUE

\* json.loads(chunk) of one serialized object
Loads(s) == ParseMembers(s, 2, <<>>)

RECURSIVE Concat(_)
\* the chunks of a sequence written one after the other
Concat(ss) == IF ss = <<>> THEN <<>> ELSE Head(ss) \o Concat(Tail(ss))

RECURSIVE SplitOn(_, _, _)
\* str.split(sep) of a character sequence: the pieces between separators
SplitOn(s, sep, cur) ==
    IF s = <<>> THEN <<cur>>
    ELSE IF Head(s) = sep THEN <<cur>> \o SplitOn(Tail(s), sep, <<>>)
    ELSE SplitOn(Tail(s), sep, Append(cur, Head(s)))

\* ------------------------------------------------------------------ events
\* the status tags of the callback handler's events
AgentStatus ==
    [llm_start |-> Num(<<"1">>), llm_new_token |-> Num(<<"2">>), llm_end |-> Num(<<"3">>),
     agent_action |-> Num(<<"4">>), agent_finish |-> Num(<<"5">>), error |-> Num(<<"8">>)]

Event(status, text) == <<[k |-> "status", val |-> status], [k |-> "text", val |-> Str(text)]>>

\* the event an error callback puts on the iterator
ErrorEvent == Event(AgentStatus.error, <<"e">>)

\* the events the callbacks of a running chain can put on the iterator (an error
\* inside the chain, such as a failed tool call, need not end the chain)
CallbackEvents ==
    {Event(AgentStatus.llm_start, <<>>),
     Event(AgentStatus.llm_new_token, <<"a">>),
     Event(AgentStatus.llm_new_token, <<"\n">>),
     Event(AgentStatus.llm_end, <<"a">>),
     Event(AgentStatus.agent_finish, <<"a">>),
     Event(AgentStatus.agent_action, <<>>)
        \o <<[k |-> "tool_name", val |-> Str(<<"t">>)],
             [k |-> "tool_input", val |-> Str(<<"a">>)]>>,
     ErrorEvent}

\* ------------------------------------------------------------------ state
VARIABLES
    conversation_id,  \* chat(): the request's conversation_id ("" when absent)
    db,               \* the message table add_message_to_db writes: [id, conversation_id]
    message_id,       \* chat_iterator's message_id (a JSON value)
    pc,               \* chat_iterator: "start", "built", "iter", "await", "done"
    task,             \* the chain task: "none", "running", "returned", "failed", "set", "finished"
    queue,            \* callback.queue: serialized events not yet taken
    done,             \* callback.done
    produced,         \* every chunk the callbacks have put, in order
    yielded,          \* the strings chat_iterator has yielded, in order
    invocations,      \* how many times the chain was invoked
    chain_failed,     \* the chain has raised
    ui_pos,           \* how many events the page's loop has handled
    text,             \* dialogue_page: text
    tool_called,      \* dialogue_page: tool_called
    ui_message_id,    \* dialogue_page: message_id
    elements,         \* the contents of the three elements of the AI message
    tool_state,       \* the state of the "tool call" expander (element 1)
    st_errors,        \* the texts shown with st.error, in order
    ui_pc             \* the page's loop: "loop" or "done"

reqVars == <<conversation_id, db, message_id, pc, task, queue, done, produced, yielded,
             invocations, chain_failed>>
pageVars == <<ui_pos, text, tool_called, ui_message_id, elements, tool_state, st_errors, ui_pc>>

VARIABLES
    chain_request,    \* the body of a request, as create_models_chains sees it
    full_chain        \* what create_models_chains gave for it

chainVars == <<chain_request, full_chain>>

VARIABLES
    conversation_ids, \* st.session_state["conversation_ids"]: session name -> id, in order
    cur_conv_name,    \* st.session_state["cur_conv_name"] (Nothing while unset)
    chat_history,     \* the chat box's histories: chat name -> messages, in order
    cur_chat_name,    \* chat_box.cur_chat_name
    uuids_made,       \* how many identifiers uuid4 has given
    selectbox,        \* the session select box: its options, index and value
    st_error,         \* the error the last page run showed ("" for none)
    modal_open,       \* the command help is open
    last_prompt,      \* dialogue_page: prompt, of the last page run
    is_command,       \* what parse_command returned for it
    sent_queries      \* the calls of api.chat_chat: query and conversation_id

sessVars == <<conversation_ids, cur_conv_name, chat_history, cur_chat_name, uuids_made,
              selectbox, st_error, modal_open, last_prompt, is_command, sent_queries>>

\* what one chat request leaves alone
outsideRequest == <<chainVars, sessVars>>
\* what building the chain leaves alone
outsideChains == <<reqVars, pageVars, sessVars>>
\* what the session steps of the page leave alone
outsideSessions == <<reqVars, pageVars, chainVars>>

vars == <<reqVars, pageVars, chainVars, sessVars>>

\* add_message_to_db returns the id of the row it adds
NewMessageId(table) == <<"m", ToString(Len(table) + 1)>>

\* the message table before the request: it holds an earlier message
InitialDbs == {<<[id |-> <<"m", "1">>, conversation_id |-> "conv1"]>>}

\* ------------------------------------------------------------------ building the chain
\* str.lower() on the letters the model names use
LowerChar(c) ==
    IF c = "C" THEN "c" ELSE IF c = "H" THEN "h" ELSE IF c = "A" THEN "a"
    ELSE IF c = "T" THEN "t" ELSE IF c = "G" THEN "g" ELSE IF c = "L" THEN "l"
    ELSE IF c = "M" THEN "m" ELSE IF c = "Q" THEN "q" ELSE IF c = "W" THEN "w"
    ELSE IF c = "E" THEN "e" ELSE IF c = "N" THEN "n" ELSE IF c = "B" THEN "b"
    ELSE IF c = "P" THEN "p" ELSE c

RECURSIVE LowerStr(_)
LowerStr(s) == IF s = <<>> THEN <<>> ELSE <<LowerChar(Head(s))>> \o LowerStr(Tail(s))

RECURSIVE Contains(_, _)
\* sub in s
Contains(sub, s) ==
    IF Len(s) < Len(sub) THEN FALSE
    ELSE IF SubSeq(s, 1, Len(sub)) = sub THEN TRUE
    ELSE Contains(sub, Tail(s))

\* the names of the models a request can configure
ModelNames ==
    {<<"c", "h", "a", "t", "g", "l", "m", "3", "-", "6", "b">>,
     <<"C", "h", "a", "t", "G", "L", "M", "3">>,
     <<"Q", "w", "e", "n", "-", "7", "B">>,
     <<"q", "w", "e", "n", "-", "c", "h", "a", "t", "g", "l", "m", "3">>,
     <<"c", "h", "a", "t", "g", "l", "m", "2", "-", "Q", "W", "E", "N">>,
     <<"c", "h", "a", "t", "g", "l", "m", "2">>,
     <<"g", "p", "t", "-", "4">>}

\* the models one model role can list: none, one, or two (the last one counts)
ModelLists ==
    {<<>>} \cup {<<n>> : n \in ModelNames}
    \cup {<<<<"Q", "w", "e", "n", "-", "7", "B">>, <<"g", "p", "t", "-", "4">>>>,
          <<<<"g", "p", "t", "-", "4">>, <<"C", "h", "a", "t", "G", "L", "M", "3">>>>}

\* a model role of model_config: absent, or a key with its models
RoleConfigs(role, lists) == {<<>>} \cup {<<[k |-> role, val |-> l]>> : l \in lists}

ModelConfigs ==
    {l \o p \o a :
        l \in RoleConfigs("llm_model", {<<>>, <<<<"g", "p", "t", "-", "4">>>>}),
        p \in RoleConfigs("preprocess_model", {<<>>, <<<<"g", "p", "t", "-", "4">>>>}),
        a \in RoleConfigs("action_model", ModelLists)}

\* history: a list of {role, content}, or an integer
HistoryList(items) == [kind |-> "list", items |-> items, n |-> 0]
HistoryInt(n) == [kind |-> "int", items |-> <<>>, n |-> n]

Histories ==
    {HistoryList(<<>>),
     HistoryList(<<[role |-> "user", content |-> "q1"]>>),
     HistoryList(<<[role |-> "user", content |-> "q1"], [role |-> "assistant", content |-> "a1"]>>),
     HistoryList(<<[role |-> "assistant", content |-> "a1"], [role |-> "user", content |-> "q1"]>>),
     HistoryInt(0),
     HistoryInt(3)}

\* the names of the registered tools (all_tools), in their order
AllTools == <<"calculate", "search_internet">>

\* the keys a request's tool_config can have
ToolConfigs == SUBSET {"calculate", "search_internet", "unregistered"}

Requests ==
    [conversation_id : {"", "conv1"},
     history_len : {-1, 0, 2},
     history : Histories,
     model_config : ModelConfigs,
     tool_config : ToolConfigs]

\* get_ChatOpenAI(model_name=...): the model instance
ModelInstance(model_name) == [model_name |-> model_name]

\* get_prompt_template(type=model_type, name=prompt_name)
PromptTemplateOf(model_type, prompt_name) == model_type \o "/" \o prompt_name

RECURSIVE SetEach(_, _, _, _)
\* the inner loop of create_models_from_config: d[model_type] is set for each model
SetEach(d, model_type, model_configs, asPrompt) ==
    IF model_configs = <<>> THEN d
    ELSE SetEach(DictSet(d, model_type,
                         IF asPrompt THEN PromptTemplateOf(model_type, "default")
                         ELSE ModelInstance(Head(model_configs))),
                 model_type, Tail(model_configs), asPrompt)

RECURSIVE FromConfig(_, _, _)
\* the outer loop of create_models_from_config
FromConfig(configs, d, asPrompt) ==
    IF configs = <<>> THEN d
    ELSE FromConfig(Tail(configs), SetEach(d, Head(configs).k, Head(configs).val, asPrompt),
                    asPrompt)

\* create_models_from_config: (models, prompts)
CreateModelsFromConfig(configs) ==
    [models |-> FromConfig(configs, <<>>, FALSE), prompts |-> FromConfig(configs, <<>>, TRUE)]

\* if history: a non-empty list, or a non-zero integer
Truthy(history) == IF history.kind = "list" THEN history.items # <<>> ELSE history.n # 0

\* History.from_data(h).to_msg_template(is_raw)
ToMsgTemplate(h, is_raw) == [role |-> h.role, content |-> h.content, raw |-> is_raw]

RECURSIVE MsgTemplates(_)
\* [i.to_msg_template() for i in history]
MsgTemplates(items) ==
    IF items = <<>> THEN <<>>
    ELSE <<ToMsgTemplate(Head(items), TRUE)>> \o MsgTemplates(Tail(items))

\* History(role="user", content=prompts["llm_model"]).to_msg_template(False)
InputMsg(prompts) ==
    ToMsgTemplate([role |-> "user", content |-> DictGet(prompts, "llm_model")], FALSE)

\* an object or None: a sequence of one element, or of none
Some(x) == <<x>>
Nothing == <<>>

\* ConversationBufferDBMemory(conversation_id=..., llm=..., message_limit=history_len)
DBMemory(conversation_id_, llm, message_limit) ==
    [conversation_id |-> conversation_id_, llm |-> llm, message_limit |-> message_limit]

\* MemoryAndPrompt, taking any non-zero history_len (-1 too) for a limit
MemoryAndPromptLenTruthy(history, history_len, prompts, models, conversation_id_) ==
    IF Truthy(history)
    THEN IF history.kind = "int"
         THEN [raised |-> "TypeError", memory |-> Nothing, chat_prompt |-> Nothing]
         ELSE IF ~DictHas(prompts, "llm_model")
         THEN [raised |-> "KeyError", memory |-> Nothing, chat_prompt |-> Nothing]
         ELSE [raised |-> "", memory |-> Nothing,
               chat_prompt |-> Some(MsgTemplates(history.items) \o <<InputMsg(prompts)>>)]
    ELSE IF conversation_id_ # "" /\ history_len # 0
    THEN IF ~DictHas(models, "llm_model")
         THEN [raised |-> "KeyError", memory |-> Nothing, chat_prompt |-> Nothing]
         ELSE [raised |-> "",
               memory |-> Some(DBMemory(conversation_id_, DictGet(models, "llm_model"),
                                        history_len)),
               chat_prompt |-> Nothing]
    ELSE IF ~DictHas(prompts, "llm_model")
    THEN [raised |-> "KeyError", memory |-> Nothing, chat_prompt |-> Nothing]
    ELSE [raised |-> "", memory |-> Nothing, chat_prompt |-> Some(<<InputMsg(prompts)>>)]

\* chat.py 50-67: the memory and the chat prompt (or the exception raised on the way)
MemoryAndPrompt(history, history_len, prompts, models, conversation_id_) ==
    IF Truthy(history)
    THEN IF history.kind = "int"
         THEN [raised |-> "TypeError", memory |-> Nothing, chat_prompt |-> Nothing]
         ELSE IF ~DictHas(prompts, "llm_model")
         THEN [raised |-> "KeyError", memory |-> Nothing, chat_prompt |-> Nothing]
         ELSE [raised |-> "", memory |-> Nothing,
               chat_prompt |-> Some(MsgTemplates(history.items) \o <<InputMsg(prompts)>>)]
    ELSE IF conversation_id_ # "" /\ history_len > 0
    THEN IF ~DictHas(models, "llm_model")
         THEN [raised |-> "KeyError", memory |-> Nothing, chat_prompt |-> Nothing]
         ELSE [raised |-> "",
               memory |-> Some(DBMemory(conversation_id_, DictGet(models, "llm_model"),
                                        history_len)),
               chat_prompt |-> Nothing]
    ELSE IF ~DictHas(prompts, "llm_model")
    THEN [raised |-> "KeyError", memory |-> Nothing, chat_prompt |-> Nothing]
    ELSE [raised |-> "", memory |-> Nothing, chat_prompt |-> Some(<<InputMsg(prompts)>>)]

\* AgentConstructor, asking for "qwen" first
AgentConstructorQwenFirst(model_name) ==
    IF Contains(<<"q", "w", "e", "n">>, LowerStr(model_name))
    THEN "initialize_qwen_agent"
    ELSE IF Contains(<<"c", "h", "a", "t", "g", "l", "m", "3">>, LowerStr(model_name))
    THEN "initialize_glm3_agent"
    ELSE "initialize_agent"

\* chat.py 81-107: the constructor of the agent executor
AgentConstructor(model_name) ==
    IF Contains(<<"c", "h", "a", "t", "g", "l", "m", "3">>, LowerStr(model_name))
    THEN "initialize_glm3_agent"
    ELSE IF Contains(<<"q", "w", "e", "n">>, LowerStr(model_name))
    THEN "initialize_qwen_agent"
    ELSE "initialize_agent"

\* chat.py 153: tools = [tool for tool in all_tools if tool.name in tool_config]
SelectTools(tool_config) == SelectSeq(AllTools, LAMBDA name : name \in tool_config)

\* what create_models_chains gives: an exception, or the chain it returns; memory
\* and chat_prompt are what LLMChain (chat.py 69-73) was given, and memory is what the
\* agent executor is given too
ChainResult(raised, kind, constructor, memory, chat_prompt, tools) ==
    [raised |-> raised, kind |-> kind, constructor |-> constructor, memory |-> memory,
     chat_prompt |-> chat_prompt, tools |-> tools]

Raised(exception) == ChainResult(exception, "", "", Nothing, Nothing, <<>>)

NotBuilt == ChainResult("", "not built", "", Nothing, Nothing, <<>>)

\* chat.py 49-117: create_models_chains
CreateModelsChains(history, history_len, prompts, models, tools, conversation_id_) ==
    LET mp == MemoryAndPrompt(history, history_len, prompts, models, conversation_id_)
    IN  IF mp.raised # "" THEN Raised(mp.raised)
        ELSE IF ~DictHas(models, "llm_model") THEN Raised("KeyError")
        ELSE IF ~DictHas(prompts, "preprocess_model") THEN Raised("KeyError")
        ELSE IF DictHas(models, "action_model") /\ tools # <<>>
        THEN ChainResult("", "agent_executor",
                         AgentConstructor(DictGet(models, "action_model").model_name),
                         mp.memory, mp.chat_prompt, tools)
        ELSE ChainResult("", "llm_chain", "LLMChain", mp.memory, mp.chat_prompt, <<>>)

\* no chain is being built
ChainsIdle ==
    /\ chain_request = [conversation_id |-> "", history_len |-> -1,
                        history |-> HistoryList(<<>>), model_config |-> <<>>,
                        tool_config |-> {}]
    /\ full_chain = NotBuilt

\* ------------------------------------------------------------------ the page's sessions
\* Names and prompts are sequences of characters. The two characters of the default
\* session prefix (U+4F1A, U+8BDD) are written "hui" and "hua".
Whitespace == {" ", "\n", "\t"}

RECURSIVE Decimal(_)
\* the decimal digits of i, as f"{i}" writes them
Decimal(i) ==
    IF i < 10 THEN <<ToString(i)>> ELSE Decimal(i \div 10) \o <<ToString(i % 10)>>

\* dialogue.py 75: name = f"<hui><hua>{i}"
DefaultSessionName(i) == <<"hui", "hua">> \o Decimal(i)

\* ChatBox(...): the chat name a chat box starts with
DefaultChatName == <<"d", "e", "f", "a", "u", "l", "t">>

\* uuid.uuid4().hex: the n-th identifier made
Uuid(n) == <<"u">> \o Decimal(n)

RECURSIVE DictKeys(_)
\* list(d.keys())
DictKeys(d) == IF d = <<>> THEN <<>> ELSE <<Head(d).k>> \o DictKeys(Tail(d))

\* d.pop(k, None)
DictPop(d, k) == SelectSeq(d, LAMBDA e : e.k # k)

\* d.setdefault(k, val)
DictSetDefault(d, k, val) == IF DictHas(d, k) THEN d ELSE DictSet(d, k, val)

\* x in list
InList(x, l) == \E i \in 1..Len(l) : l[i] = x

\* list.index(x), counted from 0 as Python does
ListIndex(x, l) == (CHOOSE i \in 1..Len(l) : l[i] = x /\ \A j \in 1..(i - 1) : l[j] # x) - 1

RECURSIVE SkipWhile(_, _, _)
\* the first place at or after i where s has no character of set (Len(s) + 1 if none)
SkipWhile(s, i, set) ==
    IF i > Len(s) THEN i
    ELSE IF s[i] \in set THEN SkipWhile(s, i + 1, set) ELSE i

RECURSIVE SkipUntil(_, _, _)
\* the first place at or after i where s has a character of set (Len(s) + 1 if none)
SkipUntil(s, i, set) ==
    IF i > Len(s) THEN i
    ELSE IF s[i] \in set THEN i ELSE SkipUntil(s, i + 1, set)

RECURSIVE Strip(_)
\* str.strip()
Strip(s) ==
    IF s = <<>> THEN s
    ELSE IF Head(s) \in Whitespace THEN Strip(Tail(s))
    ELSE IF s[Len(s)] \in Whitespace THEN Strip(SubSeq(s, 1, Len(s) - 1))
    ELSE s

\* dialogue.py 65-67: re.match(r"/([^\s]+)\s*(.*)", text), then name.strip():
\* a slash, the longest run of non-space characters (one at least), any white
\* space, then the rest of that line
MatchCommand(input) ==
    IF input = <<>> \/ input[1] # "/" THEN [matched |-> FALSE, cmd |-> <<>>, name |-> <<>>]
    ELSE LET cmdEnd == SkipUntil(input, 2, Whitespace)
             nameStart == SkipWhile(input, cmdEnd, Whitespace)
             nameEnd == SkipUntil(input, nameStart, {"\n"})
         IN  IF cmdEnd = 2 THEN [matched |-> FALSE, cmd |-> <<>>, name |-> <<>>]
             ELSE [matched |-> TRUE,
                   cmd |-> SubSeq(input, 2, cmdEnd - 1),
                   name |-> Strip(SubSeq(input, nameStart, nameEnd - 1))]

\* the prompts a user types
Prompts ==
    {<<"/", "n", "e", "w">>,
     <<"/", "n", "e", "w", " ", " ", "a", " ">>,
     <<"/", "n", "e", "w", " ", "hui", "hua", "1">>,
     <<"/", "n", "e", "w", "a">>,
     <<"/", "d", "e", "l">>,
     <<"/", "d", "e", "l", " ", "a">>,
     <<"/", "d", "e", "l", "\n", "hui", "hua", "1", "\n", "a">>,
     <<"/", "d", "e", "l", " ", "d", "e", "f", "a", "u", "l", "t">>,
     <<"/", "c", "l", "e", "a", "r">>,
     <<"/", "c", "l", "e", "a", "r", " ", "hui", "hua", "1">>,
     <<"/", "s", "t", "o", "p">>,
     <<"/", "h", "e", "l", "p">>,
     <<"/", " ", "n", "e", "w">>,
     <<"h", "i">>}

\* the session state of the page, as one record:
\*   conversation_ids  st.session_state["conversation_ids"]
\*   cur_conv_name     st.session_state["cur_conv_name"]: Nothing while unset
\*   chat_history      the chat box's histories, by chat name
\*   cur_chat_name     chat_box.cur_chat_name
\*   uuids_made        how many identifiers uuid4 has given
\*   selectbox         the session select box: its options, index and value
\*   st_error, modal_open  what the last run showed
SessionState ==
    [conversation_ids |-> conversation_ids, cur_conv_name |-> cur_conv_name,
     chat_history |-> chat_history, cur_chat_name |-> cur_chat_name,
     uuids_made |-> uuids_made, selectbox |-> selectbox, st_error |-> st_error,
     modal_open |-> modal_open]

\* st.session_state.get("cur_conv_name"), None and "" being equally false
CurConvNameOr(S, name) ==
    IF name # <<>> THEN name
    ELSE IF S.cur_conv_name = Nothing THEN <<>> ELSE S.cur_conv_name[1]

\* chat_box.get_chat_names()
GetChatNames(S) == DictKeys(S.chat_history)

\* chat_box.del_chat_name(name): the chat is dropped, the first chat left is in use
DelChatName(S, name) ==
    IF DictHas(S.chat_history, name)
    THEN LET left == DictPop(S.chat_history, name)
         IN  [S EXCEPT !.chat_history = left, !.cur_chat_name = left[1].k]
    ELSE S

\* chat_box.reset_history(name): the chat (the one in use when no name is given) is
\* emptied; a chat that did not exist comes to exist
ResetHistory(S, name) ==
    [S EXCEPT !.chat_history =
        DictSet(S.chat_history, IF name # <<>> THEN name ELSE S.cur_chat_name, <<>>)]

\* chat_box.use_chat_name(name)
UseChatName(S, name) ==
    [S EXCEPT !.cur_chat_name = name,
              !.chat_history = DictSetDefault(S.chat_history, name, <<>>)]

RECURSIVE FirstFreeIndex(_, _)
\* dialogue.py 73-78: the first i from i on whose default name is not in conv_names
FirstFreeIndex(i, conv_names) ==
    IF ~InList(DefaultSessionName(i), conv_names) THEN i
    ELSE FirstFreeIndex(i + 1, conv_names)

\* CmdNew, leaving the current session as it was
CmdNewKeepsCurrent(S, given) ==
    LET name == IF given = <<>>
                THEN DefaultSessionName(FirstFreeIndex(1, GetChatNames(S)))
                ELSE given
    IN  IF DictHas(S.conversation_ids, name)
        THEN [S EXCEPT !.st_error = "exists"]
        ELSE [S EXCEPT !.conversation_ids = DictSet(S.conversation_ids, name,
                                                    Uuid(S.uuids_made + 1)),
                       !.uuids_made = S.uuids_made + 1]

\* CmdNew, without the test for an existing name
CmdNewOverwrite(S, given) ==
    LET name == IF given = <<>>
                THEN DefaultSessionName(FirstFreeIndex(1, GetChatNames(S)))
                ELSE given
    IN  [S EXCEPT !.conversation_ids = DictSet(S.conversation_ids, name,
                                                Uuid(S.uuids_made + 1)),
                  !.uuids_made = S.uuids_made + 1,
                  !.cur_conv_name = Some(name)]

\* dialogue.py 71-84: /new
CmdNew(S, given) ==
    LET name == IF given = <<>>
                THEN DefaultSessionName(FirstFreeIndex(1, GetChatNames(S)))
                ELSE given
    IN  IF DictHas(S.conversation_ids, name)
        THEN [S EXCEPT !.st_error = "exists"]
        ELSE [S EXCEPT !.conversation_ids = DictSet(S.conversation_ids, name,
                                                    Uuid(S.uuids_made + 1)),
                       !.uuids_made = S.uuids_made + 1,
                       !.cur_conv_name = Some(name)]

\* dialogue.py 85-96: /del
CmdDel(S, given) ==
    LET name == CurConvNameOr(S, given)
    IN  IF Len(GetChatNames(S)) = 1
        THEN [S EXCEPT !.st_error = "last"]
        ELSE IF name = <<>> \/ ~DictHas(S.conversation_ids, name)
        THEN [S EXCEPT !.st_error = "invalid"]
        ELSE [DelChatName([S EXCEPT !.conversation_ids = DictPop(S.conversation_ids, name)],
                          name)
                EXCEPT !.cur_conv_name = Some(<<>>)]

\* dialogue.py 65-100: parse_command; ret is what it returns
ParseCommand(S, prompt) ==
    LET m == MatchCommand(prompt)
    IN  IF ~m.matched THEN [ret |-> FALSE, state |-> S]
        ELSE [ret |-> TRUE,
              state |->
                 IF m.cmd = <<"h", "e", "l", "p">> THEN [S EXCEPT !.modal_open = TRUE]
                 ELSE IF m.cmd = <<"n", "e", "w">> THEN CmdNew(S, m.name)
                 ELSE IF m.cmd = <<"d", "e", "l">> THEN CmdDel(S, m.name)
                 ELSE IF m.cmd = <<"c", "l", "e", "a", "r">> THEN ResetHistory(S, m.name)
                 ELSE S]

\* dialogue.py 104-131: the head of a page run. A select box whose options and
\* index are those of the run before is the same widget and keeps the value the
\* user gave it; otherwise it shows options[index].
PageTop(S0, picked) ==
    LET ids == DictSetDefault(S0.conversation_ids, S0.cur_chat_name, Uuid(S0.uuids_made + 1))
        made == IF DictHas(S0.conversation_ids, S0.cur_chat_name)
                THEN S0.uuids_made ELSE S0.uuids_made + 1
        conv_names == DictKeys(ids)
        cur == IF S0.cur_conv_name = Nothing THEN <<>> ELSE S0.cur_conv_name[1]
        index == IF S0.cur_conv_name # Nothing /\ InList(cur, conv_names)
                 THEN ListIndex(cur, conv_names) ELSE 0
        same == S0.selectbox.options = conv_names /\ S0.selectbox.index = index
        conversation_name ==
            IF same THEN (IF picked # Nothing THEN picked[1] ELSE S0.selectbox.value)
            ELSE conv_names[index + 1]
    IN  UseChatName([S0 EXCEPT !.conversation_ids = ids,
                               !.uuids_made = made,
                               !.selectbox = [options |-> conv_names, index |-> index,
                                              value |-> conversation_name]],
                    conversation_name)

\* the session state before the page has run once
FreshSession ==
    [conversation_ids |-> <<>>, cur_conv_name |-> Nothing,
     chat_history |-> <<[k |-> DefaultChatName, val |-> <<>>]>>,
     cur_chat_name |-> DefaultChatName, uuids_made |-> 0,
     selectbox |-> [options |-> <<>>, index |-> 0, value |-> <<>>],
     st_error |-> "", modal_open |-> FALSE]

\* the session variables take the values of S
SetSession(S) ==
    /\ conversation_ids' = S.conversation_ids
    /\ cur_conv_name' = S.cur_conv_name
    /\ chat_history' = S.chat_history
    /\ cur_chat_name' = S.cur_chat_name
    /\ uuids_made' = S.uuids_made
    /\ selectbox' = S.selectbox
    /\ st_error' = S.st_error
    /\ modal_open' = S.modal_open

\* dialogue.py 104-131: the session state once the page has run for the first time
FirstRun == PageTop(FreshSession, Nothing)

\* the page has run once and waits for the user
SessionsIdle ==
    /\ conversation_ids = FirstRun.conversation_ids
    /\ cur_conv_name = FirstRun.cur_conv_name
    /\ chat_history = FirstRun.chat_history
    /\ cur_chat_name = FirstRun.cur_chat_name
    /\ uuids_made = FirstRun.uuids_made
    /\ selectbox = FirstRun.selectbox
    /\ st_error = FirstRun.st_error
    /\ modal_open = FirstRun.modal_open
    /\ last_prompt = Nothing
    /\ is_command = FALSE
    /\ sent_queries = <<>>

\* chat_box.user_say(prompt); chat_box.ai_say([...]): two messages in the chat in use
SayBoth(S, prompt) ==
    [S EXCEPT !.chat_history =
        DictSet(S.chat_history, S.cur_chat_name,
                DictGet(S.chat_history, S.cur_chat_name)
                \o <<[role |-> "user", content |-> prompt],
                     [role |-> "assistant", content |-> <<>>]>>)]

\* no chat request is being served
RequestIdle ==
    /\ conversation_id = ""
    /\ db \in InitialDbs
    /\ message_id = None
    /\ pc = "start"
    /\ task = "none"
    /\ queue = <<>>
    /\ done = FALSE
    /\ produced = <<>>
    /\ yielded = <<>>
    /\ invocations = 0
    /\ chain_failed = FALSE
    /\ ui_pos = 0
    /\ text = <<>>
    /\ tool_called = FALSE
    /\ ui_message_id = Str(<<>>)
    /\ elements = <<<<"thinking">>, <<>>, <<>>>>
    /\ tool_state = "running"
    /\ st_errors = <<>>
    /\ ui_pc = "loop"

Init ==
    /\ ChainsIdle
    /\ SessionsIdle
    /\ conversation_id \in {"", "conv1"}
    /\ db \in InitialDbs
    /\ message_id = None
    /\ pc = "start"
    /\ task = "none"
    /\ queue = <<>>
    /\ done = FALSE
    /\ produced = <<>>
    /\ yielded = <<>>
    /\ invocations = 0
    /\ chain_failed = FALSE
    /\ ui_pos = 0
    /\ text = <<>>
    /\ tool_called = FALSE
    /\ ui_message_id = Str(<<>>)
    /\ elements = <<<<"thinking">>, <<>>, <<>>>>
    /\ tool_state = "running"
    /\ st_errors = <<>>
    /\ ui_pc = "loop"

\* ------------------------------------------------------------------ chat_iterator
\* Begin, recording the query whether or not there is a conversation
BeginRecordingAlways ==
    /\ pc = "start"
    /\ message_id' = Str(NewMessageId(db))
    /\ db' = Append(db, [id |-> NewMessageId(db), conversation_id |-> conversation_id])
    /\ pc' = "built"
    /\ UNCHANGED <<conversation_id, task, queue, done, produced, yielded, invocations,
                   chain_failed, pageVars, outsideRequest>>

\* chat.py 140-163: record the query when there is a conversation, build the chain
Begin ==
    /\ pc = "start"
    /\ IF conversation_id # ""
       THEN /\ message_id' = Str(NewMessageId(db))
            /\ db' = Append(db, [id |-> NewMessageId(db), conversation_id |-> conversation_id])
       ELSE /\ message_id' = None
            /\ db' = db
    /\ pc' = "built"
    /\ UNCHANGED <<conversation_id, task, queue, done, produced, yielded, invocations,
                   chain_failed, pageVars, outsideRequest>>

\* chat.py 167-168: the chain starts as a task of its own
CreateTask ==
    /\ pc = "built"
    /\ task' = "running"
    /\ invocations' = invocations + 1
    /\ pc' = "iter"
    /\ UNCHANGED <<conversation_id, db, message_id, queue, done, produced, yielded,
                   chain_failed, pageVars, outsideRequest>>

\* a callback of the running chain puts one serialized event on the iterator
Callback(ev) ==
    /\ task = "running"
    /\ Len(produced) < MaxEvents
    /\ queue' = Append(queue, Dumps(ev))
    /\ produced' = Append(produced, Dumps(ev))
    /\ UNCHANGED <<conversation_id, db, message_id, pc, task, done, yielded, invocations,
                   chain_failed, pageVars, outsideRequest>>

\* the chain fails: its error callback puts the error event, the exception leaves it
ChainFail ==
    /\ task = "running"
    /\ queue' = Append(queue, Dumps(ErrorEvent))
    /\ produced' = Append(produced, Dumps(ErrorEvent))
    /\ task' = "failed"
    /\ chain_failed' = TRUE
    /\ UNCHANGED <<conversation_id, db, message_id, pc, done, yielded, invocations, pageVars, outsideRequest>>

\* the chain returns its result
ChainReturn ==
    /\ task = "running"
    /\ task' = "returned"
    /\ UNCHANGED <<conversation_id, db, message_id, pc, queue, done, produced, yielded,
                   invocations, chain_failed, pageVars, outsideRequest>>

\* wrap_done: whatever the chain did, the event is set
WrapDoneSet ==
    /\ task \in {"returned", "failed"}
    /\ done' = TRUE
    /\ task' = "set"
    /\ UNCHANGED <<conversation_id, db, message_id, pc, queue, produced, yielded,
                   invocations, chain_failed, pageVars, outsideRequest>>

\* wrap_done returns: the task is complete
TaskExit ==
    /\ task = "set"
    /\ task' = "finished"
    /\ UNCHANGED <<conversation_id, db, message_id, pc, queue, done, produced, yielded,
                   invocations, chain_failed, pageVars, outsideRequest>>

\* Forward, keeping only the chunk just taken (the yield outside the loop)
ForwardLastOnly ==
    /\ pc = "iter"
    /\ queue # <<>>
    /\ \E data \in {Loads(Head(queue))} :
       \E data2 \in {DictSet(data, "message_id", message_id)} :
          yielded' = <<Dumps(data2)>>
    /\ queue' = Tail(queue)
    /\ UNCHANGED <<conversation_id, db, message_id, pc, task, done, produced, invocations,
                   chain_failed, pageVars, outsideRequest>>

\* chat.py 170-173: one turn of the loop over callback.aiter()
Forward ==
    /\ pc = "iter"
    /\ queue # <<>>
    /\ \E data \in {Loads(Head(queue))} :
       \E data2 \in {DictSet(data, "message_id", message_id)} :
          yielded' = Append(yielded, Dumps(data2))
    /\ queue' = Tail(queue)
    /\ UNCHANGED <<conversation_id, db, message_id, pc, task, done, produced, invocations,
                   chain_failed, pageVars, outsideRequest>>

\* callback.aiter() ends: nothing is queued and the event is set
AiterEnd ==
    /\ pc = "iter"
    /\ queue = <<>>
    /\ done
    /\ pc' = "await"
    /\ UNCHANGED <<conversation_id, db, message_id, task, queue, done, produced, yielded,
                   invocations, chain_failed, pageVars, outsideRequest>>

\* chat.py 175: await task, then the generator (and the response) ends
AwaitTask ==
    /\ pc = "await"
    /\ task = "finished"
    /\ pc' = "done"
    /\ UNCHANGED <<conversation_id, db, message_id, task, queue, done, produced, yielded,
                   invocations, chain_failed, pageVars, outsideRequest>>

\* StreamingResponse: the body is the yielded strings, one after the other
Body == Concat(yielded)

\* ------------------------------------------------------------------ the page's loop
\* chat_box.update_msg(..., element_index=i): -1 is the last element
ElementAt(i) == IF i = -1 THEN Len(elements) ELSE i + 1

\* dialogue.py 304-305: the tool call shown in element 1
ToolCallText(d) ==
    <<"Input Params:">> \o DictGet(d, "tool_name").v \o DictGet(d, "tool_input").v

\* OnError, ending the loop at the first error event
OnErrorStop(d) ==
    /\ st_errors' = Append(st_errors, DictGet(d, "text").v)
    /\ ui_pc' = "done"
    /\ UNCHANGED <<text, tool_called, elements, tool_state>>

\* dialogue.py 297-298: an error event is shown inline, and the loop goes on
OnError(d) ==
    /\ st_errors' = Append(st_errors, DictGet(d, "text").v)
    /\ UNCHANGED <<text, tool_called, elements, tool_state, ui_pc>>

\* OnAgentAction, keeping the text gathered before the tool call
OnAgentActionKeepsText(d) ==
    /\ elements' = [elements EXCEPT ![ElementAt(1)] = ToolCallText(d)]
    /\ tool_called' = TRUE
    /\ UNCHANGED <<text, tool_state, st_errors, ui_pc>>

\* dialogue.py 299-307: a tool call goes to element 1, and the text starts afresh
OnAgentAction(d) ==
    /\ elements' = [elements EXCEPT ![ElementAt(1)] = ToolCallText(d)]
    /\ tool_called' = TRUE
    /\ text' = <<>>
    /\ UNCHANGED <<tool_state, st_errors, ui_pc>>

\* dialogue.py 308-310: a token is added to the text, shown in element element_index
OnNewToken(d, element_index) ==
    /\ text' = text \o DictGet(d, "text").v
    /\ elements' = [elements EXCEPT ![ElementAt(element_index)] = text']
    /\ UNCHANGED <<tool_called, tool_state, st_errors, ui_pc>>

\* dialogue.py 311-312: the text is shown a last time
OnLlmEnd(d, element_index) ==
    /\ elements' = [elements EXCEPT ![ElementAt(element_index)] = text]
    /\ UNCHANGED <<text, tool_called, tool_state, st_errors, ui_pc>>

\* dialogue.py 313-315: the tool call is complete, the answer goes to the last element
OnAgentFinish(d) ==
    /\ tool_state' = "complete"
    /\ elements' = [elements EXCEPT ![ElementAt(-1)] = DictGet(d, "text").v]
    /\ UNCHANGED <<text, tool_called, st_errors, ui_pc>>

\* dialogue.py 282-315: one turn of the loop over api.chat_chat(...)
HandleEvent ==
    /\ ui_pc = "loop"
    /\ ui_pos < Len(yielded)
    /\ \E d \in {Loads(yielded[ui_pos + 1])} :
       \E status \in {DictGet(d, "status")} :
       \E element_index \in {IF ~tool_called THEN 0 ELSE -1} :
           /\ ui_message_id' =
                  (IF DictHas(d, "message_id") THEN DictGet(d, "message_id") ELSE Str(<<>>))
           /\ IF status = AgentStatus.error THEN OnError(d)
              ELSE IF status = AgentStatus.agent_action THEN OnAgentAction(d)
              ELSE IF status = AgentStatus.llm_new_token THEN OnNewToken(d, element_index)
              ELSE IF status = AgentStatus.llm_end THEN OnLlmEnd(d, element_index)
              ELSE IF status = AgentStatus.agent_finish THEN OnAgentFinish(d)
              ELSE UNCHANGED <<text, tool_called, elements, tool_state, st_errors, ui_pc>>
    /\ ui_pos' = ui_pos + 1
    /\ UNCHANGED <<reqVars, outsideRequest>>

\* the response has ended and every event is handled: the loop ends
LoopEnd ==
    /\ ui_pc = "loop"
    /\ pc = "done"
    /\ ui_pos = Len(yielded)
    /\ ui_pc' = "done"
    /\ UNCHANGED <<reqVars, ui_pos, text, tool_called, ui_message_id, elements, tool_state,
                   st_errors, outsideRequest>>

Next ==
    \/ Begin
    \/ CreateTask
    \/ \E ev \in CallbackEvents : Callback(ev)
    \/ ChainFail
    \/ ChainReturn
    \/ WrapDoneSet
    \/ TaskExit
    \/ Forward
    \/ AiterEnd
    \/ AwaitTask
    \/ HandleEvent
    \/ LoopEnd

Spec == Init /\ [][Next]_vars

\* ------------------------------------------------------------------ SpecChains
\* a request of the bounded input set arrives
InitChains ==
    /\ RequestIdle
    /\ SessionsIdle
    /\ chain_request \in Requests
    /\ full_chain = NotBuilt

\* chat.py 150-163: the models and prompts of the request, its tools, its chain
BuildChain ==
    /\ full_chain = NotBuilt
    /\ LET mp == CreateModelsFromConfig(chain_request.model_config)
       IN  full_chain' = CreateModelsChains(chain_request.history, chain_request.history_len,
                                            mp.prompts, mp.models,
                                            SelectTools(chain_request.tool_config),
                                            chain_request.conversation_id)
    /\ UNCHANGED <<chain_request, outsideChains>>

NextChains == BuildChain

SpecChains == InitChains /\ [][NextChains]_vars

\* ------------------------------------------------------------------ the page's session steps
\* dialogue.py 104-131, 255-288: a page run with a prompt from st.chat_input. A
\* command is parsed and the page reruns; any other prompt is said in the chat in
\* use and sent to the chat endpoint with the selected session's conversation id.
Submit(prompt) ==
    LET S1 == [PageTop(SessionState, Nothing) EXCEPT !.st_error = ""]
        r == ParseCommand(S1, prompt)
        S2 == IF r.ret THEN PageTop(r.state, Nothing) ELSE SayBoth(S1, prompt)
    IN  /\ S2.uuids_made <= MaxUuids
        /\ r.ret \/ Len(sent_queries) < MaxPrompts
        /\ SetSession(S2)
        /\ last_prompt' = Some(prompt)
        /\ is_command' = r.ret
        /\ sent_queries' =
              IF r.ret THEN sent_queries
              ELSE Append(sent_queries,
                          [query |-> prompt,
                           conversation_id |-> DictGet(S1.conversation_ids,
                                                       S1.selectbox.value)])
        /\ UNCHANGED outsideSessions

ChatInput == \E prompt \in Prompts : Submit(prompt)

\* dialogue.py 123-131: the user picks another session in the select box; the page runs
SelectSession ==
    \E i \in 1..Len(selectbox.options) :
        /\ selectbox.options[i] # selectbox.value
        /\ SetSession([PageTop(SessionState, Some(selectbox.options[i]))
                         EXCEPT !.st_error = ""])
        /\ last_prompt' = Nothing
        /\ is_command' = FALSE
        /\ UNCHANGED <<sent_queries, outsideSessions>>

\* dialogue.py 104-131, 361-366: the "clear" button: reset_history(), then a rerun
ClearButton ==
    /\ SetSession(PageTop(ResetHistory([PageTop(SessionState, Nothing)
                                          EXCEPT !.st_error = ""], <<>>),
                          Nothing))
    /\ last_prompt' = Nothing
    /\ is_command' = FALSE
    /\ UNCHANGED <<sent_queries, outsideSessions>>

InitUI ==
    /\ RequestIdle
    /\ ChainsIdle
    /\ SessionsIdle

NextUI ==
    \/ ChatInput
    \/ SelectSession
    \/ ClearButton

SpecUI == InitUI /\ [][NextUI]_vars

\* the prompts that parse_command takes for commands
CommandPrompts == {prompt \in Prompts : MatchCommand(prompt).matched}

Command == \E prompt \in CommandPrompts : Submit(prompt)

\* the page under commands, session selection and the clear button
NextCommands ==
    \/ Command
    \/ SelectSession
    \/ ClearButton

SpecCommands == InitUI /\ [][NextCommands]_vars

\* the prompts that are /new and /del commands
SessionPrompts ==
    {prompt \in Prompts :
        /\ MatchCommand(prompt).matched
        /\ MatchCommand(prompt).cmd \in {<<"n", "e", "w">>, <<"d", "e", "l">>}}

NewOrDel == \E prompt \in SessionPrompts : Submit(prompt)

\* the page under /new, /del and session selection alone
NextSessions ==
    \/ NewOrDel
    \/ SelectSession

SpecSessions == InitUI /\ [][NextSessions]_vars

\* the scheduling of one request: the event loop runs every coroutine that can run
\* (wrap_done's end, the generator's loop), and the page keeps reading the response
Scheduled ==
    \/ WrapDoneSet
    \/ TaskExit
    \/ Forward
    \/ AiterEnd
    \/ AwaitTask
    \/ HandleEvent
    \/ LoopEnd

Fairness == WF_vars(Scheduled)

SpecFair == Init /\ [][Next]_vars /\ Fairness

\* ------------------------------------------------------------------ claims
\* a yielded event without the message_id chat_iterator adds
Payload(d) == SelectSeq(d, LAMBDA m : m.k # "message_id")

StatusOf(chunk) == DictGet(Loads(chunk), "status")

\* C1: every chunk the callbacks put is forwarded exactly once and in order, whatever
\* the interleaving of the chain task and the loop: the yielded events followed by the
\* queued chunks are the produced chunks, and the response ends only after the task
\* has completed and everything produced was forwarded.
C1_ForwardedOnceInOrder ==
    /\ Len(yielded) + Len(queue) = Len(produced)
    /\ \A i \in 1..Len(yielded) : Payload(Loads(yielded[i])) = Loads(produced[i])
    /\ \A i \in 1..Len(queue) : queue[i] = produced[Len(yielded) + i]
    /\ pc = "done" => (task = "finished" /\ Len(yielded) = Len(produced))

\* C1 witness: the response has ended after two different chunks went through
C1_Witness ==
    /\ pc = "done"
    /\ Len(produced) >= 2
    /\ produced[1] # produced[2]
    /\ Len(yielded) = Len(produced)

\* C2: every yielded event has a status and a message_id; the message_id is the one
\* of the request, which is the id of the single row recorded for the query before
\* the chain starts when conversation_id is non-empty, and null with nothing
\* recorded when it is empty.
C2_MessageId ==
    /\ \A i \in 1..Len(yielded) :
          LET d == Loads(yielded[i])
          IN  /\ DictHas(d, "status")
              /\ DictHas(d, "message_id")
              /\ DictGet(d, "message_id") = message_id
    /\ pc = "start" => (db \in InitialDbs /\ invocations = 0)
    /\ (pc # "start" /\ conversation_id # "") =>
          /\ message_id.t = "str"
          /\ \E d0 \in InitialDbs :
                /\ db = Append(d0, [id |-> message_id.v, conversation_id |-> conversation_id])
                /\ \A i \in 1..Len(d0) : d0[i].id # message_id.v
    /\ conversation_id = "" => (message_id = None /\ db \in InitialDbs)

\* C2 witness: a request with a conversation has ended after two events
C2_Witness ==
    /\ pc = "done"
    /\ conversation_id # ""
    /\ Len(yielded) >= 2

\* str.split("\n") of the body, an empty body holding no event
SplitLines(b) == IF b = <<>> THEN <<>> ELSE SplitOn(b, "\n", <<>>)

\* C3: the body is newline-delimited JSON: split on newlines, the body of an ended
\* response gives back exactly the events that were emitted.
C3_NewlineDelimited == pc = "done" => SplitLines(Body) = yielded

\* the texts of the error events among the first n yielded events
RECURSIVE ErrorTexts(_)
ErrorTexts(n) ==
    IF n = 0 THEN <<>>
    ELSE LET d == Loads(yielded[n])
         IN  ErrorTexts(n - 1)
             \o (IF DictGet(d, "status") = AgentStatus.error
                 THEN <<DictGet(d, "text").v>> ELSE <<>>)

C4_Safety ==
    /\ invocations <= 1
    /\ (chain_failed /\ pc = "done") =>
          \E i \in 1..Len(yielded) : StatusOf(yielded[i]) = AgentStatus.error
    /\ st_errors = ErrorTexts(ui_pos)
    /\ ui_pc = "done" => (pc = "done" /\ ui_pos = Len(yielded))

\* C4: a failure of the chain reaches the response as an event with the error status;
\* the page shows every error event inline and goes on with the events after it; the
\* chain is invoked at most once; the response and the page's loop come to their end.
C4_ErrorSurfaces == [](C4_Safety) /\ (chain_failed ~> (pc = "done" /\ ui_pc = "done"))

\* C4 witness: the chain failed after an earlier error event; the page showed both
\* errors and the event between them, and reached the end of the response
C4_Witness ==
    /\ chain_failed
    /\ ui_pc = "done"
    /\ Len(st_errors) >= 2
    /\ Len(yielded) >= 3
    /\ StatusOf(yielded[1]) = AgentStatus.error
    /\ StatusOf(yielded[2]) = AgentStatus.llm_new_token
    /\ elements[1] # <<"thinking">>

\* the models listed for the action model role of a request (none when the role is absent)
ActionModels(request) ==
    LET roles == SelectSeq(request.model_config, LAMBDA e : e.k = "action_model")
    IN  IF roles = <<>> THEN <<>> ELSE roles[1].val

\* s holds sub somewhere
HasSubstring(s, sub) ==
    \E i \in 1..Len(s) : i + Len(sub) - 1 <= Len(s) /\ SubSeq(s, i, i + Len(sub) - 1) = sub

Returned == full_chain.kind # "not built" /\ full_chain.raised = ""

\* C8: whenever create_models_chains returns, it returns an agent executor exactly when
\* an action model is configured and a registered tool is named in tool_config, and the
\* plain LLM chain otherwise; the agent's constructor goes by the lower-cased name of
\* the action model: "chatglm3" first, then "qwen", then the structured-chat agent.
C8_ChainSelection ==
    Returned =>
        LET names == ActionModels(chain_request)
            toolNamed == \E i \in 1..Len(AllTools) : AllTools[i] \in chain_request.tool_config
            lower == LowerStr(names[Len(names)])
        IN  /\ (full_chain.kind = "agent_executor") = (names # <<>> /\ toolNamed)
            /\ (full_chain.kind = "llm_chain") = ~(names # <<>> /\ toolNamed)
            /\ full_chain.kind = "agent_executor" =>
                 full_chain.constructor =
                    (IF HasSubstring(lower, <<"c", "h", "a", "t", "g", "l", "m", "3">>)
                     THEN "initialize_glm3_agent"
                     ELSE IF HasSubstring(lower, <<"q", "w", "e", "n">>)
                     THEN "initialize_qwen_agent"
                     ELSE "initialize_agent")

\* C8 witness: an agent was built for a model whose name holds both "qwen" and "chatglm3"
C8_Witness ==
    /\ Returned
    /\ full_chain.kind = "agent_executor"
    /\ full_chain.constructor = "initialize_glm3_agent"
    /\ HasSubstring(LowerStr(ActionModels(chain_request)[1]), <<"q", "w", "e", "n">>)

\* no history was supplied: an empty list (or the integer 0, which Python takes the same)
HistoryEmpty(history) ==
    (history.kind = "list" /\ history.items = <<>>) \/ (history.kind = "int" /\ history.n = 0)

SessionNames == DictKeys(chat_history)

\* prompt is the command cmd with the name it carries
IsCommand(prompt, cmd) == MatchCommand(prompt).matched /\ MatchCommand(prompt).cmd = cmd

\* name is a new session after the step: it was in no map, it has an identifier that no
\* session has or had, and it is the current session of the page, of the select box
\* and of the chat box
CreatedAsCurrent(name) ==
    /\ ~DictHas(conversation_ids, name)
    /\ DictHas(conversation_ids', name)
    /\ \A n \in 1..uuids_made : DictGet(conversation_ids', name) # Uuid(n)
    /\ \A i \in 1..Len(conversation_ids) :
          /\ conversation_ids'[i] = conversation_ids[i]
          /\ conversation_ids[i].val # DictGet(conversation_ids', name)
    /\ Len(conversation_ids') = Len(conversation_ids) + 1
    /\ cur_conv_name' = Some(name)
    /\ selectbox'.value = name
    /\ cur_chat_name' = name
    /\ DictHas(chat_history', name)
    /\ st_error' = ""

C6_DelDeletesSelected ==
    [][\A prompt \in {p \in SessionPrompts : last_prompt' = Some(p)} :
          (/\ Submit(prompt)
           /\ IsCommand(prompt, <<"d", "e", "l">>)
           /\ MatchCommand(prompt).name = <<>>
           /\ Len(conversation_ids) > 1) =>
             /\ ~DictHas(conversation_ids', selectbox.value)
             /\ ~DictHas(chat_history', selectbox.value)]_vars

\* input is a slash, one of the five command words, and then nothing or white space
SupportedCommand(input) ==
    \E cmd \in {<<"n", "e", "w">>, <<"d", "e", "l">>, <<"c", "l", "e", "a", "r">>,
                <<"s", "t", "o", "p">>, <<"h", "e", "l", "p">>} :
       /\ Len(input) >= Len(cmd) + 1
       /\ SubSeq(input, 1, Len(cmd) + 1) = <<"/">> \o cmd
       /\ Len(input) > Len(cmd) + 1 => input[Len(cmd) + 2] \in Whitespace

\* C7: parse_command returns True exactly when the text is one of the supported
\* commands (/new, /del, /clear, /stop, /help); when it returns True the text is neither
\* sent to the chat endpoint nor added to a chat history, and when it returns False
\* parse_command has changed no session state.
C7_TrueIffSupported ==
    [][\A prompt \in {p \in Prompts : last_prompt' = Some(p)} :
          Submit(prompt) =>
             LET before == [PageTop(SessionState, Nothing) EXCEPT !.st_error = ""]
             IN  /\ is_command' = SupportedCommand(prompt)
                 /\ is_command' =>
                       /\ sent_queries' = sent_queries
                       /\ \A i \in 1..Len(chat_history') :
                             \A j \in 1..Len(chat_history'[i].val) :
                                chat_history'[i].val[j].content # prompt
                 /\ ~is_command' => ParseCommand(before, prompt).state = before]_vars

\* C10: /new with a name that a session already has shows the error and leaves the
\* conversation-id map and the current session as they were; no /new ever changes the
\* conversation id of a session that exists.
C10_NewExistingRefused ==
    [][\A prompt \in {p \in Prompts : last_prompt' = Some(p)} :
          (Submit(prompt) /\ IsCommand(prompt, <<"n", "e", "w">>)) =>
             LET given == MatchCommand(prompt).name
             IN  /\ (given # <<>> /\ DictHas(conversation_ids, given)) =>
                       /\ st_error' = "exists"
                       /\ conversation_ids' = conversation_ids
                       /\ cur_conv_name' = cur_conv_name
                       /\ selectbox' = selectbox
                       /\ cur_chat_name' = cur_chat_name
                 /\ \A i \in 1..Len(conversation_ids) :
                       /\ DictHas(conversation_ids', conversation_ids[i].k)
                       /\ DictGet(conversation_ids', conversation_ids[i].k)
                             = conversation_ids[i].val]_vars

\* C10 witness: /new a (written with spaces around the name) was refused while a session a existed, /del and /clear having
\* been possible before
C10_Witness ==
    /\ last_prompt = Some(<<"/", "n", "e", "w", " ", " ", "a", " ">>)
    /\ is_command
    /\ st_error = "exists"
    /\ DictHas(conversation_ids, <<"a">>)
    /\ cur_conv_name # Some(<<"a">>)

\* the name /del is aimed at: the one given, else the current session of the page
DelTarget(given) ==
    IF given # <<>> THEN given
    ELSE IF cur_conv_name = Nothing THEN <<>> ELSE cur_conv_name[1]

\* the step showed an error and left the sessions as they were
RefusedUnchanged ==
    /\ st_error' # ""
    /\ conversation_ids' = conversation_ids
    /\ cur_conv_name' = cur_conv_name
    /\ chat_history' = chat_history
    /\ cur_chat_name' = cur_chat_name
    /\ selectbox' = selectbox

\* at least one session is left, and the selected one has a conversation id
SessionsStand ==
    /\ Len(conversation_ids) >= 1
    /\ DictHas(conversation_ids, selectbox.value)
    /\ InList(selectbox.value, selectbox.options)

\* C11: after every command and page run a session remains and the session selected in
\* the sidebar has an entry in the conversation-id map; /del on the last remaining
\* session and /del with an unknown name each show an error and change no session state.
C11_LastSessionKept ==
    [][/\ SessionsStand'
       /\ \A prompt \in {p \in Prompts : last_prompt' = Some(p)} :
             (Submit(prompt) /\ IsCommand(prompt, <<"d", "e", "l">>)) =>
                LET given == MatchCommand(prompt).name
                IN  /\ (Len(conversation_ids) = 1
                        /\ DelTarget(given) \in {<<>>, conversation_ids[1].k}) =>
                          RefusedUnchanged
                    /\ (given # <<>> /\ ~DictHas(conversation_ids, given)) =>
                          RefusedUnchanged]_vars

\* ------------------------------------------------------------------ the rendered answer
\* the i-th event of the response, as the page reads it
EventAt(i) == Loads(yielded[i])

\* one of the first n events is a tool call
ActionBefore(n) ==
    \E i \in 1..n : DictGet(EventAt(i), "status") = AgentStatus.agent_action

RECURSIVE DeltasSince(_)
\* the token texts among the first n events that follow the last tool call among them
\* (or the start), joined in order
DeltasSince(n) ==
    IF n = 0 THEN <<>>
    ELSE IF DictGet(EventAt(n), "status") = AgentStatus.agent_action THEN <<>>
    ELSE IF DictGet(EventAt(n), "status") = AgentStatus.llm_new_token
    THEN DeltasSince(n - 1) \o DictGet(EventAt(n), "text").v
    ELSE DeltasSince(n - 1)

\* one of the first n events is a token
TokenBefore(n) ==
    \E i \in 1..n : DictGet(EventAt(i), "status") = AgentStatus.llm_new_token

\* what the page's loop does to the elements when it handles the event at ui_pos + 1:
\* a token before any tool call goes to element 0, a token after one goes to the last
\* element alone, and the accumulated text is the tokens since the last tool call
TokensByElement ==
    LET status == DictGet(EventAt(ui_pos + 1), "status")
    IN  /\ text' = DeltasSince(ui_pos + 1)
        /\ status = AgentStatus.agent_action => text' = <<>>
        /\ (status = AgentStatus.llm_new_token /\ ~ActionBefore(ui_pos)) =>
              /\ elements'[1] = DeltasSince(ui_pos + 1)
              /\ elements'[2] = elements[2]
              /\ elements'[3] = elements[3]
        /\ (status = AgentStatus.llm_new_token /\ ActionBefore(ui_pos)) =>
              /\ elements'[3] = DeltasSince(ui_pos + 1)
              /\ elements'[1] = elements[1]
              /\ elements'[2] = elements[2]

\* the element the page writes tokens to after n events
ElementInUse(n) == IF ActionBefore(n) THEN 3 ELSE 1

\* C12 (as stated): tokens before the first tool call update element 0, tokens after a
\* tool call update the last element alone, the accumulated text is emptied at each
\* tool call, and at any moment (once a token has come) the text shown is the tokens
\* received since the last tool call, joined.
C12_ShownIsDeltas ==
    [][ui_pos' = ui_pos + 1 =>
          /\ TokensByElement
          /\ TokenBefore(ui_pos + 1) =>
                elements'[ElementInUse(ui_pos + 1)] = DeltasSince(ui_pos + 1)]_vars

\* C12 (amended): tokens before the first tool call update element 0, tokens after a
\* tool call update the last element alone, the accumulated text is emptied at each
\* tool call, and the accumulated text, which every token writes to its element, is the
\* tokens received since the last tool call, joined.
C12_TokensByElement ==
    [][ui_pos' = ui_pos + 1 => TokensByElement]_vars

\* C12 witness: a token came before the tool call and one after it: element 0 keeps the
\* first, the last element shows the second
C12_Witness ==
    /\ ui_pos = 3
    /\ DictGet(EventAt(1), "status") = AgentStatus.llm_new_token
    /\ DictGet(EventAt(2), "status") = AgentStatus.agent_action
    /\ DictGet(EventAt(3), "status") = AgentStatus.llm_new_token
    /\ elements[1] = DictGet(EventAt(1), "text").v
    /\ elements[3] = DictGet(EventAt(3), "text").v
    /\ text = elements[3]

====
